---- MODULE Spec2Model ----
(***************************************************************************)
(* Model of script.py: the budget sync that filters a batch of CSV        *)
(* transactions, drops the ones already recorded (row_exists), merges the *)
(* accepted ones into the expense and income sheets (merge_and_sort_data) *)
(* and rewrites each sheet with batch_clear / update / format.            *)
(*                                                                         *)
(* Text is a sequence of one-character strings.  Amounts are integers in  *)
(* hundredths (500 is 5.00), so that the 0.01 tolerance is 1.  Dates are  *)
(* modelled by their day field: DATE_FORMAT is "%d".                      *)
(***************************************************************************)
EXTENDS Integers, Sequences, FiniteSets, TLC

VARIABLES
    pc,                 \* position of the script / of the harness
    full_df,            \* the batch after the noise filter (sorted by date)
    sheet,              \* the store: data range of each worksheet
    expense_data_rows,  \* rows read from the expense sheet
    income_data_rows,   \* rows read from the income sheet
    new_expense_rows,   \* queued expense rows
    new_income_rows,    \* queued income rows
    calls,              \* store calls made on each worksheet in this run
    at_start,           \* at_start[r]: the store when run r began
    run,                \* 1 for the first run of the script, 2 for the rerun
    args,               \* inputs of the function under test (harnesses)
    ret                 \* its result (harnesses)

vars == <<pc, full_df, sheet, expense_data_rows, income_data_rows,
          new_expense_rows, new_income_rows, calls, at_start, run, args, ret>>

-----------------------------------------------------------------------------
(* Bounds of the model.                                                    *)

MaxBatch == 2       \* records in the batch of a run
MaxSheet == 1       \* rows in a worksheet before a run
MaxCsv == 2         \* records in the batch handed to row_exists
MaxRows == 2        \* rows in the sheet data handed to row_exists
MaxDf == 2          \* records handed to the noise filter
MaxPatterns == 2    \* patterns in each list of the noise filter
MaxExisting == 3    \* existing rows handed to merge_and_sort_data
MaxNew == 2         \* new rows handed to merge_and_sort_data

-----------------------------------------------------------------------------
(* Text.                                                                   *)

Abs(x) == IF x < 0 THEN -x ELSE x

IsSpace(c) == c = " "

RECURSIVE LStrip(_)
LStrip(s) == IF s # <<>> /\ IsSpace(Head(s)) THEN LStrip(Tail(s)) ELSE s

RECURSIVE RStrip(_)
RStrip(s) ==
    IF s # <<>> /\ IsSpace(s[Len(s)]) THEN RStrip(SubSeq(s, 1, Len(s) - 1)) ELSE s

\* str.strip()
Strip(s) == RStrip(LStrip(s))

LowerChar(c) == IF c = "A" THEN "a" ELSE IF c = "B" THEN "b" ELSE c

\* str.lower()
Lower(s) == [i \in DOMAIN s |-> LowerChar(s[i])]

\* str.replace(ch, '')
Remove(s, ch) == SelectSeq(s, LAMBDA c : c # ch)

DigitChars == <<"0", "1", "2", "3", "4", "5", "6", "7", "8", "9">>

IsDigit(c) == \E d \in DOMAIN DigitChars : DigitChars[d] = c

DigitVal(c) == (CHOOSE d \in DOMAIN DigitChars : DigitChars[d] = c) - 1

AllDigits(s) == \A i \in DOMAIN s : IsDigit(s[i])

RECURSIVE DigitsValue(_)
DigitsValue(s) ==
    IF s = <<>> THEN 0
    ELSE 10 * DigitsValue(SubSeq(s, 1, Len(s) - 1)) + DigitVal(s[Len(s)])

RECURSIVE ToDigits(_)
ToDigits(n) ==
    IF n < 10 THEN <<DigitChars[n + 1]>>
    ELSE ToDigits(n \div 10) \o <<DigitChars[(n % 10) + 1]>>

ValueError == [ok |-> FALSE, val |-> 0]

Parsed(v) == [ok |-> TRUE, val |-> v]

\* float(text): digits with an optional point; the texts of the model carry
\* at most two fractional digits.  The value is in hundredths.
float(s) ==
    LET t == Strip(s)
        dots == {i \in DOMAIN t : t[i] = "."}
    IN  IF dots = {}
        THEN IF t # <<>> /\ AllDigits(t) THEN Parsed(100 * DigitsValue(t))
             ELSE ValueError
        ELSE IF Cardinality(dots) = 1
        THEN LET d == CHOOSE i \in dots : TRUE
                 ip == SubSeq(t, 1, d - 1)
                 fp == SubSeq(t, d + 1, Len(t))
             IN  IF AllDigits(ip) /\ AllDigits(fp) /\ Len(ip) + Len(fp) > 0
                    /\ Len(fp) <= 2
                 THEN Parsed(100 * DigitsValue(ip)
                             + (IF Len(fp) = 1 THEN 10 * DigitsValue(fp)
                                ELSE DigitsValue(fp)))
                 ELSE ValueError
        ELSE ValueError

\* str(x) of a float x: "5.0", "5.1", "5.01"
FloatStr(n) ==
    LET f == n % 100
    IN  ToDigits(n \div 100) \o <<".">> \o
        (IF f % 10 = 0 THEN ToDigits(f \div 10)
         ELSE <<DigitChars[(f \div 10) + 1], DigitChars[(f % 10) + 1]>>)

DateMin == 0        \* datetime.min

\* datetime.strptime(text, DATE_FORMAT) with DATE_FORMAT = "%d"
strptime(s) ==
    IF Len(s) \in {1, 2} /\ AllDigits(s) /\ DigitsValue(s) \in 1..31
    THEN Parsed(DigitsValue(s))
    ELSE ValueError

-----------------------------------------------------------------------------
(* Cells.  The cells of a sheet row are texts, except the amount (third)  *)
(* cell, which is a text as read from the sheet or a number as written by *)
(* the script.                                                             *)

Txt(s) == [t |-> "txt", v |-> s]

Num(n) == [t |-> "num", v |-> n]

\* str(cell)
Str(cell) == IF cell.t = "num" THEN FloatStr(cell.v) ELSE cell.v

NaN == -1           \* a missing cost or payment

notna(x) == x # NaN

\* The 0.01 of abs(...) <= 0.01.  The comparison is made on floats in the
\* script; for the amounts of the model (5.00, 5.01, 7.25, 1200.00 to 1200.02)
\* it gives what the comparison of the decimal amounts gives.
Tol == 1

-----------------------------------------------------------------------------
(* row_exists.                                                             *)

\* The name of the row compared without lowercasing it.
existing_name_case_sensitive(row) == IF row[2] # <<>> THEN Strip(row[2]) ELSE <<>>

\* row[1].strip().lower() if row[1] else ""
existing_name(row) == IF row[2] # <<>> THEN Lower(Strip(row[2])) ELSE <<>>

\* float(str(row[2]).replace('$', '').replace(',', '').strip())
existing_amount(row) == float(Strip(Remove(Remove(Str(row[3]), "$"), ",")))

\* The scan that stops at the first row whose amount does not parse.
RECURSIVE ScanSheetStopsAtBadAmount(_, _, _)
ScanSheetStopsAtBadAmount(rows, name_str_clean, amount_val) ==
    IF rows = <<>> THEN FALSE
    ELSE LET row == Head(rows)
             rest == ScanSheetStopsAtBadAmount(Tail(rows), name_str_clean, amount_val)
         IN  IF Len(row) >= 3
             THEN IF existing_name(row) # name_str_clean THEN rest
                  ELSE IF ~existing_amount(row).ok THEN FALSE
                  ELSE IF Abs(existing_amount(row).val - amount_val) <= Tol
                       THEN TRUE
                       ELSE rest
             ELSE rest

\* The loop over sheet_data: TRUE when it returns True, FALSE when it ends.
RECURSIVE ScanSheet(_, _, _)
ScanSheet(rows, name_str_clean, amount_val) ==
    IF rows = <<>> THEN FALSE
    ELSE LET row == Head(rows)
             rest == ScanSheet(Tail(rows), name_str_clean, amount_val)
         IN  IF Len(row) >= 3
             THEN IF existing_name(row) # name_str_clean THEN rest
                  ELSE IF ~existing_amount(row).ok THEN rest
                  ELSE IF Abs(existing_amount(row).val - amount_val) <= Tol
                       THEN TRUE
                       ELSE rest
             ELSE rest

\* The amount read from the payment column first.
csv_amount_payment_first(csv_row) ==
    IF notna(csv_row.payment) /\ csv_row.payment > 0 THEN csv_row.payment
    ELSE IF notna(csv_row.cost) /\ csv_row.cost > 0 THEN csv_row.cost
    ELSE NaN

\* csv_amount of a batch row; NaN stands for None
csv_amount(csv_row) ==
    IF notna(csv_row.cost) /\ csv_row.cost > 0 THEN csv_row.cost
    ELSE IF notna(csv_row.payment) /\ csv_row.payment > 0 THEN csv_row.payment
    ELSE NaN

\* The loop over csv_data.itertuples()
RECURSIVE ScanCsv(_, _, _, _)
ScanCsv(csv_data, date_str, name_str_clean, amount_val) ==
    IF csv_data = <<>> THEN FALSE
    ELSE LET csv_row == Head(csv_data)
             rest == ScanCsv(Tail(csv_data), date_str, name_str_clean, amount_val)
         IN  IF Lower(Strip(csv_row.name)) # name_str_clean THEN rest
             ELSE IF ~notna(csv_amount(csv_row)) THEN rest
             ELSE IF Abs(csv_amount(csv_row) - amount_val) <= Tol
                     /\ csv_row.date # date_str
                  THEN TRUE
                  ELSE rest

row_exists(date_str, name_str, amount_val, sheet_data, csv_data) ==
    LET name_str_clean == Lower(Strip(name_str))
    IN  IF ScanSheet(sheet_data, name_str_clean, amount_val) THEN TRUE
        ELSE ScanCsv(csv_data, date_str, name_str_clean, amount_val)

-----------------------------------------------------------------------------
(* The noise filter.                                                       *)

\* Series.str.contains(pat, case=False, na=False) on one name: a regular
\* expression search (regex=True is the default of pandas), ignoring case.
\* Patterns are made of literal characters and of ".", which matches any
\* character.
contains(name, pat) ==
    \E i \in 0..(Len(name) - Len(pat)) :
        \A j \in 1..Len(pat) :
            pat[j] = "." \/ LowerChar(pat[j]) = LowerChar(name[i + j])

contains_keep_account(name, KEEP_ACCOUNT_NUMBERS) ==
    \E k \in DOMAIN KEEP_ACCOUNT_NUMBERS : contains(name, KEEP_ACCOUNT_NUMBERS[k])

filter_condition(name, FILTER_STRINGS, KEEP_ACCOUNT_NUMBERS) ==
    \A f \in DOMAIN FILTER_STRINGS :
        ~(contains(name, FILTER_STRINGS[f])
          /\ ~contains_keep_account(name, KEEP_ACCOUNT_NUMBERS))

\* full_df[filter_condition]
Filtered(df, FILTER_STRINGS, KEEP_ACCOUNT_NUMBERS) ==
    SelectSeq(df, LAMBDA r :
        filter_condition(r.name, FILTER_STRINGS, KEEP_ACCOUNT_NUMBERS))

-----------------------------------------------------------------------------
(* merge_and_sort_data.                                                    *)

\* The dict built from an existing row
ExistingRow(row) ==
    [date |-> Strip(row[1]),
     name |-> IF Len(row) > 1 THEN Strip(row[2]) ELSE <<>>,
     amount |-> IF Len(row) > 2 THEN row[3] ELSE Txt(<<>>),
     category |-> IF Len(row) > 3 THEN row[4] ELSE <<>>,
     notes |-> IF Len(row) > 4 THEN row[5] ELSE <<>>]

\* A row counts only when its date parses.
HasParsedDate(row) == Len(row) >= 1 /\ row[1] # <<>> /\ strptime(Strip(row[1])).ok

\* len(row) >= 1 and row[0]
HasDate(row) == Len(row) >= 1 /\ row[1] # <<>>

RECURSIVE ExistingRows(_)
ExistingRows(existing_data) ==
    IF existing_data = <<>> THEN <<>>
    ELSE (IF HasDate(Head(existing_data))
          THEN <<ExistingRow(Head(existing_data))>> ELSE <<>>)
         \o ExistingRows(Tail(existing_data))

all_rows(existing_data, new_rows) == ExistingRows(existing_data) \o new_rows

\* row['date_obj']
date_obj(row) ==
    IF strptime(row.date).ok THEN strptime(row.date).val ELSE DateMin

\* Insertion that puts a row before the rows of the same date.
RECURSIVE InsertBeforeEqual(_, _)
InsertBeforeEqual(sorted, r) ==
    IF sorted = <<>> THEN <<r>>
    ELSE IF date_obj(Head(sorted)) < date_obj(r)
         THEN <<Head(sorted)>> \o InsertBeforeEqual(Tail(sorted), r)
         ELSE <<r>> \o sorted

\* One step of the stable sort: r goes after every row whose key is not larger.
RECURSIVE Insert(_, _)
Insert(sorted, r) ==
    IF sorted = <<>> THEN <<r>>
    ELSE IF date_obj(Head(sorted)) <= date_obj(r)
         THEN <<Head(sorted)>> \o Insert(Tail(sorted), r)
         ELSE <<r>> \o sorted

\* all_rows.sort(key=lambda x: x['date_obj'])
RECURSIVE sort(_)
sort(rows) ==
    IF rows = <<>> THEN <<>>
    ELSE Insert(sort(SubSeq(rows, 1, Len(rows) - 1)), rows[Len(rows)])

ToList(row) == <<row.date, row.name, row.amount, row.category, row.notes>>

merge_and_sort_data(existing_data, new_rows) ==
    LET sorted == sort(all_rows(existing_data, new_rows))
    IN  [i \in DOMAIN sorted |-> ToList(sorted[i])]

\* The dict queued for an accepted record
NewRow(date_val, name_val, amount_val) ==
    [date |-> date_val, name |-> name_val, amount |-> Num(amount_val),
     category |-> <<>>, notes |-> <<>>]

-----------------------------------------------------------------------------
(* Values the specifications draw from.                                    *)

SeqsUpTo(S, n) == UNION {[1..k -> S] : k \in 0..n}

\* full_df.sort_values(by="date"): the batch is ascending by date
DatesAscending(df) ==
    \A i, j \in DOMAIN df : i < j => date_obj(df[i]) <= date_obj(df[j])

Record(d, n, c, p) == [date |-> d, name |-> n, cost |-> c, payment |-> p]

Idle ==
    /\ full_df = <<>>
    /\ sheet = [w \in {"expense", "income"} |-> <<>>]
    /\ expense_data_rows = <<>>
    /\ income_data_rows = <<>>
    /\ new_expense_rows = <<>>
    /\ new_income_rows = <<>>
    /\ calls = [w \in {"expense", "income"} |-> <<>>]
    /\ at_start = <<>>
    /\ run = 0

IdleUnchanged ==
    UNCHANGED <<full_df, sheet, expense_data_rows, income_data_rows,
                new_expense_rows, new_income_rows, calls, at_start, run>>

-----------------------------------------------------------------------------
(* SpecRowExists: row_exists called for a record of the batch.             *)

\* name, cost, payment of the records
CsvCharges ==
    {<<<<"a">>, 120000, NaN>>, <<<<" ", "A">>, 120001, NaN>>,
     <<<<"a">>, NaN, 120000>>, <<<<"a">>, 120002, 120000>>,
     <<<<"b">>, 120000, NaN>>}

CsvRecords ==
    {Record(d, c[1], c[2], c[3]) :
        d \in {<<"0", "1">>, <<"0", "2">>}, c \in CsvCharges}

SheetRows ==
    {<<<<"0", "1">>, <<"a">>, Txt(<<"$", "1", ",", "2", "0", "0", ".", "0", "0">>)>>,
     <<<<"x">>, <<"A", " ">>, Txt(<<"1", "2", "0", "0", ".", "0", "1">>)>>,
     <<<<"0", "2">>, <<"a">>, Txt(<<"x">>)>>,
     <<<<"0", "1">>, <<"a">>>>}

\* The amount of record r in the view of kind k
ViewAmount(r, k) == IF k = "expense" THEN r.cost ELSE r.payment

InView(r, k) == notna(ViewAmount(r, k)) /\ ViewAmount(r, k) > 0

InitRowExists ==
    /\ Idle
    /\ pc = "row_exists"
    /\ ret = "none"
    /\ args \in {a \in [csv_data : SeqsUpTo(CsvRecords, MaxCsv),
                        sheet_data : SeqsUpTo(SheetRows, MaxRows),
                        i : 1..MaxCsv,
                        kind : {"expense", "income"}] :
                    /\ DatesAscending(a.csv_data)
                    /\ a.i \in DOMAIN a.csv_data
                    /\ InView(a.csv_data[a.i], a.kind)}

CallRowExists ==
    /\ pc = "row_exists"
    /\ ret' = row_exists(args.csv_data[args.i].date, args.csv_data[args.i].name,
                         ViewAmount(args.csv_data[args.i], args.kind),
                         args.sheet_data, args.csv_data)
    /\ pc' = "row_exists returned"
    /\ UNCHANGED args
    /\ IdleUnchanged

NextRowExists == CallRowExists

SpecRowExists == InitRowExists /\ [][NextRowExists]_vars

\* The candidate of the call
Cand == args.csv_data[args.i]

CandAmount == ViewAmount(Cand, args.kind)

\* Row R has at least three cells, the given name once trimmed and lowercased,
\* and an amount that parses to within 0.01 of the given amount
RowMatches(R, name, amount) ==
    /\ Len(R) >= 3
    /\ Lower(Strip(R[2])) = Lower(Strip(name))
    /\ float(Strip(Remove(Remove(Str(R[3]), "$"), ","))).ok
    /\ Abs(float(Strip(Remove(Remove(Str(R[3]), "$"), ","))).val - amount) <= Tol

\* Row R names the candidate and carries its amount
LedgerRowMatches(R) == RowMatches(R, Cand.name, CandAmount)

BatchRowMatches(B) ==
    /\ Lower(Strip(B.name)) = Lower(Strip(Cand.name))
    /\ \/ /\ B.cost # NaN /\ B.cost > 0
          /\ Abs(B.cost - CandAmount) <= Tol
       \/ /\ ~(B.cost # NaN /\ B.cost > 0)
          /\ B.payment # NaN /\ B.payment > 0
          /\ Abs(B.payment - CandAmount) <= Tol
    /\ B.date # Cand.date

-----------------------------------------------------------------------------
(* SpecFilter: the noise filter applied to a batch.                        *)

FilterNames == {<<"a", "c">>, <<"A", "b">>, <<"a", ".">>, <<"b">>}

FilterPatterns == {<<"a", ".">>, <<"a">>, <<"B">>, <<>>}

FilterRecords ==
    {Record(<<"0", "1">>, n, c, NaN) : n \in FilterNames, c \in {500}}

NonEmptySeqsUpTo(S, n) == SeqsUpTo(S, n) \ {<<>>}

InitFilter ==
    /\ Idle
    /\ pc = "filter"
    /\ ret = "none"
    /\ args \in [df : SeqsUpTo(FilterRecords, MaxDf),
                 FILTER_STRINGS : NonEmptySeqsUpTo(FilterPatterns, MaxPatterns),
                 KEEP_ACCOUNT_NUMBERS : NonEmptySeqsUpTo(FilterPatterns, MaxPatterns)]

CallFilter ==
    /\ pc = "filter"
    /\ ret' = Filtered(args.df, args.FILTER_STRINGS, args.KEEP_ACCOUNT_NUMBERS)
    /\ pc' = "filter returned"
    /\ UNCHANGED args
    /\ IdleUnchanged

NextFilter == CallFilter

SpecFilter == InitFilter /\ [][NextFilter]_vars

\* pat occurs in name as a substring, ignoring case
HasSubstring(name, pat) ==
    \E i \in 0..(Len(name) - Len(pat)) :
        \A j \in 1..Len(pat) : LowerChar(pat[j]) = LowerChar(name[i + j])

\* The record is one the claim of C4 drops
DroppedByRule(r) ==
    /\ \E f \in DOMAIN args.FILTER_STRINGS :
           HasSubstring(r.name, args.FILTER_STRINGS[f])
    /\ ~\E k \in DOMAIN args.KEEP_ACCOUNT_NUMBERS :
           HasSubstring(r.name, args.KEEP_ACCOUNT_NUMBERS[k])

\* C4: the filter drops exactly the records whose name contains, as a
\* substring and ignoring case, an exclude pattern and no keep pattern, and
\* keeps the others in their input order.
C4_NoiseFilter ==
    pc = "filter returned"
    => ret = SelectSeq(args.df, LAMBDA r : ~DroppedByRule(r))

\* No pattern holds a regular-expression metacharacter
LiteralPatterns ==
    /\ \A f \in DOMAIN args.FILTER_STRINGS :
           \A j \in DOMAIN args.FILTER_STRINGS[f] : args.FILTER_STRINGS[f][j] # "."
    /\ \A k \in DOMAIN args.KEEP_ACCOUNT_NUMBERS :
           \A j \in DOMAIN args.KEEP_ACCOUNT_NUMBERS[k] :
               args.KEEP_ACCOUNT_NUMBERS[k][j] # "."

\* The rule of the filter for patterns free of metacharacters: the filter
\* departs from it only through the metacharacters.
FilterRuleForLiteralPatterns ==
    (pc = "filter returned" /\ LiteralPatterns)
    => ret = SelectSeq(args.df, LAMBDA r : ~DroppedByRule(r))

-----------------------------------------------------------------------------
(* SpecMerge: merge_and_sort_data applied to existing and new rows.        *)

MergeRows ==
    {<<<<"0", "1">>, <<"a">>, Txt(<<"$", "5", ".", "0", "0">>)>>,
     <<<<"1">>, <<"b", " ">>>>,
     <<<<"0", "2">>, <<"a">>, Txt(<<"x">>), <<"c">>, <<"n">>>>,
     <<<<" ", "0", "2">>, <<"b">>, Txt(<<"7">>)>>,
     <<<<"x">>, <<"a">>, Txt(<<"5">>)>>,
     <<<<>>, <<"a">>, Txt(<<"5">>)>>}

MergeNewRows ==
    {NewRow(<<"0", "1">>, <<"c">>, 500), NewRow(<<"0", "2">>, <<"c">>, 500)}

InitMerge ==
    /\ Idle
    /\ pc = "merge"
    /\ ret = "none"
    /\ args \in [existing_data : SeqsUpTo(MergeRows, MaxExisting),
                 new_rows : SeqsUpTo(MergeNewRows, MaxNew)]

CallMerge ==
    /\ pc = "merge"
    /\ ret' = merge_and_sort_data(args.existing_data, args.new_rows)
    /\ pc' = "merge returned"
    /\ UNCHANGED args
    /\ IdleUnchanged

NextMerge == CallMerge

SpecMerge == InitMerge /\ [][NextMerge]_vars

\* The sort key of a row given as a list of cells: its date parsed with the
\* configured format, or the minimum date
KeyOfList(row) == IF strptime(row[1]).ok THEN strptime(row[1]).val ELSE DateMin

\* The rows handed to the sort, in input order: existing rows, then new rows
MergeInput ==
    LET a == all_rows(args.existing_data, args.new_rows)
    IN  [i \in DOMAIN a |-> ToList(a[i])]

\* C6: the output of merge_and_sort_data is ascending by sort key (rows
\* whose date does not parse have the minimum key), and the rows of one key
\* appear in their input order, existing rows before new rows.
C6_MergeOrder ==
    pc = "merge returned"
    => /\ \A i, j \in DOMAIN ret : i < j => KeyOfList(ret[i]) <= KeyOfList(ret[j])
       /\ \A k \in {DateMin} \cup 1..31 :
              SelectSeq(ret, LAMBDA r : KeyOfList(r) = k)
                  = SelectSeq(MergeInput, LAMBDA r : KeyOfList(r) = k)

\* An input out of order with a row whose date does not parse, and an
\* existing and a new row of one date.
C6_Witness ==
    /\ pc = "merge returned"
    /\ ret # MergeInput
    /\ ~strptime(ret[1][1]).ok
    /\ \E i, j \in DOMAIN ret :
           /\ i < j
           /\ KeyOfList(ret[i]) = KeyOfList(ret[j])
           /\ ret[i][3].t = "txt"
           /\ ret[j][3].t = "num"

\* Cell k of a row as the sheet shows it: absent trailing cells are empty
CellOf(row, k) ==
    IF k <= Len(row) THEN row[k] ELSE IF k = 3 THEN Txt(<<>>) ELSE <<>>

\* The row with its date and name trimmed and its five cells spelled out
SameRow(out, row) ==
    /\ Len(out) = 5
    /\ out[1] = Strip(CellOf(row, 1))
    /\ out[2] = Strip(CellOf(row, 2))
    /\ \A k \in 3..5 : out[k] = CellOf(row, k)

\* The row has a date cell that is not empty
Dated(row) == Len(row) >= 1 /\ row[1] # <<>>

\* The dates of the existing rows are ascending
ExistingAscending ==
    \A i, j \in DOMAIN args.existing_data :
        (i < j /\ Dated(args.existing_data[i]) /\ Dated(args.existing_data[j]))
        => KeyOfList(<<Strip(args.existing_data[i][1])>>)
               <= KeyOfList(<<Strip(args.existing_data[j][1])>>)

ExistingReturned ==
    /\ Len(ret) = Len(args.existing_data)
    /\ \A i \in DOMAIN ret : SameRow(ret[i], args.existing_data[i])

\* C7 as stated: merging no new rows into existing rows whose dates are
\* already ascending returns the existing rows, all of them, in their order.
C7_MergeReturnsAllRows ==
    (pc = "merge returned" /\ args.new_rows = <<>> /\ ExistingAscending)
    => ExistingReturned

\* C7 amended: merging no new rows into existing rows that all have a
\* non-empty date cell and whose dates are already ascending returns the
\* existing rows, all of them, in their order (each with its date and name
\* trimmed and its five cells spelled out).
C7_MergeIdempotent ==
    (/\ pc = "merge returned"
     /\ args.new_rows = <<>>
     /\ \A i \in DOMAIN args.existing_data : Dated(args.existing_data[i])
     /\ ExistingAscending)
    => ExistingReturned

\* Three ascending rows, two of them of one date, one that does not parse.
C7_Witness ==
    /\ pc = "merge returned"
    /\ args.new_rows = <<>>
    /\ \A i \in DOMAIN args.existing_data : Dated(args.existing_data[i])
    /\ ExistingAscending
    /\ Len(args.existing_data) = 3
    /\ Len(ret) = 3
    /\ ~strptime(ret[1][1]).ok
    /\ KeyOfList(ret[2]) = KeyOfList(ret[3])
    /\ ret[2] # ret[3]

-----------------------------------------------------------------------------
(* Spec: the script from the reading of the sheets on, run on a filtered  *)
(* batch, and run a second time on the same batch.                         *)

Worksheets == {"expense", "income"}

\* full_df[full_df['cost'].notna() & (full_df['cost'] > 0)]
debts(df) == SelectSeq(df, LAMBDA r : notna(r.cost) /\ r.cost > 0)

\* full_df[full_df['payment'].notna() & (full_df['payment'] > 0)]
payments(df) == SelectSeq(df, LAMBDA r : notna(r.payment) /\ r.payment > 0)

\* The loop over debts.iterrows()
RECURSIVE QueueExpenses(_, _, _)
QueueExpenses(view, sheet_data, df) ==
    IF view = <<>> THEN <<>>
    ELSE LET row == Head(view)
         IN  (IF ~row_exists(row.date, row.name, row.cost, sheet_data, df)
              THEN <<NewRow(row.date, row.name, row.cost)>>
              ELSE <<>>)
             \o QueueExpenses(Tail(view), sheet_data, df)

\* The loop over payments.iterrows()
RECURSIVE QueueIncome(_, _, _)
QueueIncome(view, sheet_data, df) ==
    IF view = <<>> THEN <<>>
    ELSE LET row == Head(view)
         IN  (IF ~row_exists(row.date, row.name, row.payment, sheet_data, df)
              THEN <<NewRow(row.date, row.name, row.payment)>>
              ELSE <<>>)
             \o QueueIncome(Tail(view), sheet_data, df)

\* The sheet is rewritten whatever was queued.
AlwaysWrites(new_rows) == TRUE

\* if new_expense_rows: / if new_income_rows:
Writes(new_rows) == new_rows # <<>>

RunCharges ==
    {<<<<"a">>, 500, NaN>>, <<<<" ", "A">>, 501, NaN>>, <<<<"b">>, 500, NaN>>,
     <<<<"a">>, NaN, 500>>, <<<<"B">>, NaN, 725>>}

RunRecords ==
    {Record(d, c[1], c[2], c[3]) :
        d \in {<<"0", "1">>, <<"0", "2">>}, c \in RunCharges}

RunRows ==
    {<<<<"0", "1">>, <<"a">>, Txt(<<"$", "5", ".", "0", "0">>)>>,
     <<<<>>, <<"a">>, Txt(<<"5", ".", "0", "0">>)>>,
     <<<<"0", "2">>, <<"b">>>>}

NoCalls == [w \in Worksheets |-> <<>>]

Init ==
    /\ pc = "get expense"
    /\ run = 1
    /\ full_df \in {df \in SeqsUpTo(RunRecords, MaxBatch) : DatesAscending(df)}
    /\ sheet \in [Worksheets -> SeqsUpTo(RunRows, MaxSheet)]
    /\ at_start = <<sheet>>
    /\ calls = NoCalls
    /\ expense_data_rows = <<>>
    /\ income_data_rows = <<>>
    /\ new_expense_rows = <<>>
    /\ new_income_rows = <<>>
    /\ args = "none"
    /\ ret = "none"

Called(w, call) == calls' = [calls EXCEPT ![w] = Append(@, call)]

\* expense_data_rows = expense_sheet.get(data_range)
GetExpense ==
    /\ pc = "get expense"
    /\ expense_data_rows' = sheet["expense"]
    /\ Called("expense", "get")
    /\ pc' = "get income"
    /\ UNCHANGED <<full_df, sheet, income_data_rows, new_expense_rows,
                   new_income_rows, at_start, run, args, ret>>

\* income_data_rows = income_sheet.get(data_range)
GetIncome ==
    /\ pc = "get income"
    /\ income_data_rows' = sheet["income"]
    /\ Called("income", "get")
    /\ pc' = "expenses"
    /\ UNCHANGED <<full_df, sheet, expense_data_rows, new_expense_rows,
                   new_income_rows, at_start, run, args, ret>>

\* The expense loop, and the merge when rows were queued
ProcessExpenses ==
    /\ pc = "expenses"
    /\ new_expense_rows' = QueueExpenses(debts(full_df), expense_data_rows, full_df)
    /\ pc' = IF Writes(new_expense_rows') THEN "clear expense" ELSE "income"
    /\ UNCHANGED <<full_df, sheet, expense_data_rows, income_data_rows,
                   new_income_rows, calls, at_start, run, args, ret>>

merged_expense_data == merge_and_sort_data(expense_data_rows, new_expense_rows)

\* expense_sheet.batch_clear([data_range])
ClearExpense ==
    /\ pc = "clear expense"
    /\ sheet' = [sheet EXCEPT !["expense"] = <<>>]
    /\ Called("expense", "batch_clear")
    /\ pc' = IF merged_expense_data # <<>> THEN "update expense" ELSE "income"
    /\ UNCHANGED <<full_df, expense_data_rows, income_data_rows, new_expense_rows,
                   new_income_rows, at_start, run, args, ret>>

\* expense_sheet.update(range_name=data_range, values=merged_expense_data, ...)
UpdateExpense ==
    /\ pc = "update expense"
    /\ sheet' = [sheet EXCEPT !["expense"] = merged_expense_data]
    /\ Called("expense", "update")
    /\ pc' = "format expense"
    /\ UNCHANGED <<full_df, expense_data_rows, income_data_rows, new_expense_rows,
                   new_income_rows, at_start, run, args, ret>>

\* expense_sheet.format(format_range, ...)
FormatExpense ==
    /\ pc = "format expense"
    /\ Called("expense", "format")
    /\ pc' = "income"
    /\ UNCHANGED <<full_df, sheet, expense_data_rows, income_data_rows,
                   new_expense_rows, new_income_rows, at_start, run, args, ret>>

\* The income loop, and the merge when rows were queued
ProcessIncome ==
    /\ pc = "income"
    /\ new_income_rows' = QueueIncome(payments(full_df), income_data_rows, full_df)
    /\ pc' = IF Writes(new_income_rows') THEN "clear income" ELSE "done"
    /\ UNCHANGED <<full_df, sheet, expense_data_rows, income_data_rows,
                   new_expense_rows, calls, at_start, run, args, ret>>

merged_income_data == merge_and_sort_data(income_data_rows, new_income_rows)

\* income_sheet.batch_clear([data_range])
ClearIncome ==
    /\ pc = "clear income"
    /\ sheet' = [sheet EXCEPT !["income"] = <<>>]
    /\ Called("income", "batch_clear")
    /\ pc' = IF merged_income_data # <<>> THEN "update income" ELSE "done"
    /\ UNCHANGED <<full_df, expense_data_rows, income_data_rows, new_expense_rows,
                   new_income_rows, at_start, run, args, ret>>

\* income_sheet.update(range_name=data_range, values=merged_income_data, ...)
UpdateIncome ==
    /\ pc = "update income"
    /\ sheet' = [sheet EXCEPT !["income"] = merged_income_data]
    /\ Called("income", "update")
    /\ pc' = "format income"
    /\ UNCHANGED <<full_df, expense_data_rows, income_data_rows, new_expense_rows,
                   new_income_rows, at_start, run, args, ret>>

\* income_sheet.format(format_range, ...)
FormatIncome ==
    /\ pc = "format income"
    /\ Called("income", "format")
    /\ pc' = "done"
    /\ UNCHANGED <<full_df, sheet, expense_data_rows, income_data_rows,
                   new_expense_rows, new_income_rows, at_start, run, args, ret>>

StoreCalls ==
    {"get expense", "get income", "clear expense", "update expense",
     "format expense", "clear income", "update income", "format income"}

\* A store call raises: the handlers log the error and sys.exit(1).  The
\* failed call leaves the store as it was.
StoreError ==
    /\ pc \in StoreCalls
    /\ pc' = "aborted"
    /\ UNCHANGED <<full_df, sheet, expense_data_rows, income_data_rows,
                   new_expense_rows, new_income_rows, calls, at_start, run,
                   args, ret>>

\* The script is started again on the same batch after a successful run.
Rerun ==
    /\ pc = "done"
    /\ run = 1
    /\ run' = 2
    /\ pc' = "get expense"
    /\ at_start' = Append(at_start, sheet)
    /\ calls' = NoCalls
    /\ expense_data_rows' = <<>>
    /\ income_data_rows' = <<>>
    /\ new_expense_rows' = <<>>
    /\ new_income_rows' = <<>>
    /\ UNCHANGED <<full_df, sheet, args, ret>>

Next ==
    \/ GetExpense
    \/ GetIncome
    \/ ProcessExpenses
    \/ ClearExpense
    \/ UpdateExpense
    \/ FormatExpense
    \/ ProcessIncome
    \/ ClearIncome
    \/ UpdateIncome
    \/ FormatIncome
    \/ StoreError
    \/ Rerun

Spec == Init /\ [][Next]_vars

-----------------------------------------------------------------------------
(* Claims about a run.                                                     *)

\* The rows queued for worksheet k
NewRows(k) == IF k = "expense" THEN new_expense_rows ELSE new_income_rows

\* Records r1 and r2 of view k are entries of one charge
SameCharge(r1, r2, k) ==
    /\ InView(r1, k)
    /\ InView(r2, k)
    /\ Lower(Strip(r1.name)) = Lower(Strip(r2.name))
    /\ Abs(ViewAmount(r1, k) - ViewAmount(r2, k)) <= Tol

\* No row that worksheet k held when run n began matches record r
NotInLedger(r, k, n) ==
    \A m \in DOMAIN at_start[n][k] :
        ~RowMatches(at_start[n][k][m], r.name, ViewAmount(r, k))

\* The queued row is an entry of the charge of r
RowOfCharge(new_row, r, k) ==
    /\ Lower(Strip(new_row.name)) = Lower(Strip(r.name))
    /\ Abs(new_row.amount.v - ViewAmount(r, k)) <= Tol

WriteCalls == {"batch_clear", "update", "format"}

NoWriteCall(k) == \A c \in DOMAIN calls[k] : calls[k][c] \notin WriteCalls

\* C3: when a charge appears more than once in the filtered batch with the
\* same date, and no ledger row matches it, a run appends at most one row
\* for it.
C3_DuplicatesInOneImport ==
    (run = 1 /\ pc = "done")
    => \A k \in Worksheets : \A i, j \in DOMAIN full_df :
           (/\ i < j
            /\ SameCharge(full_df[i], full_df[j], k)
            /\ full_df[i].date = full_df[j].date
            /\ NotInLedger(full_df[i], k, 1)
            /\ NotInLedger(full_df[j], k, 1))
           => Cardinality({n \in DOMAIN NewRows(k) :
                              /\ RowOfCharge(NewRows(k)[n], full_df[i], k)
                              /\ NewRows(k)[n].date = full_df[i].date}) <= 1

\* C5: for each worksheet, when no record was queued for it the run makes
\* no clear, update or format call on it and its data range is as it was
\* when the run began.
C5_NoWriteWhenNothingAccepted ==
    \A k \in Worksheets :
        NewRows(k) = <<>> => NoWriteCall(k) /\ sheet[k] = at_start[run][k]

\* A finished run whose expenses were all flagged, beside an income that
\* was written.
C5_Witness ==
    /\ pc = "done"
    /\ debts(full_df) # <<>>
    /\ new_expense_rows = <<>>
    /\ new_income_rows # <<>>
    /\ NoWriteCall("expense")
    /\ ~NoWriteCall("income")
    /\ sheet["expense"] = at_start[run]["expense"]
    /\ sheet["expense"] # <<>>

\* C8: when two or more records of one kind carry the same charge on
\* different dates and no ledger row matches them, at least one of them is
\* queued and is in the ledger after the run.
C8_NoChargeLost ==
    (run = 1 /\ pc = "done")
    => \A k \in Worksheets : \A i, j \in DOMAIN full_df :
           (/\ i # j
            /\ SameCharge(full_df[i], full_df[j], k)
            /\ full_df[i].date # full_df[j].date
            /\ NotInLedger(full_df[i], k, 1)
            /\ NotInLedger(full_df[j], k, 1))
           => \E n \in DOMAIN NewRows(k) :
                  /\ RowOfCharge(NewRows(k)[n], full_df[i], k)
                  /\ \E m \in DOMAIN sheet[k] : sheet[k][m] = ToList(NewRows(k)[n])

\* The merged sequence of worksheet k
Merged(k) == IF k = "expense" THEN merged_expense_data ELSE merged_income_data

\* C9: in every state of a run each worksheet holds the rows it had when
\* the run began or the complete merged sequence.
C9_AllOrNothing ==
    \A k \in Worksheets : sheet[k] = at_start[run][k] \/ sheet[k] = Merged(k)

RerunIsNoOp ==
    /\ new_expense_rows = <<>>
    /\ new_income_rows = <<>>
    /\ \A k \in Worksheets : NoWriteCall(k)
    /\ sheet = at_start[2]

\* C10 as stated: the second run queues nothing, makes no clear or write
\* call and leaves both worksheets as the first run left them.
C10_RerunIsNoOp == run = 2 => RerunIsNoOp

\* Every row the worksheets held before the first run has a date cell
LedgersDated ==
    \A k \in Worksheets : \A m \in DOMAIN at_start[1][k] :
        Len(at_start[1][k][m]) >= 1 /\ at_start[1][k][m][1] # <<>>

\* C10 amended: when every row the ledgers held before the first run has a
\* non-empty date cell, the second run queues nothing, makes no clear or
\* write call and leaves both worksheets as the first run left them.
C10_RerunIsNoOpOnDatedLedgers == (run = 2 /\ LedgersDated) => RerunIsNoOp

\* A second run finished after a first run that wrote both worksheets.
C10_Witness ==
    /\ run = 2
    /\ pc = "done"
    /\ LedgersDated
    /\ \A k \in Worksheets :
           /\ at_start[1][k] # <<>>
           /\ at_start[2][k] # at_start[1][k]
           /\ Len(calls[k]) = 1
    /\ \E i \in DOMAIN full_df : full_df[i].name # Lower(Strip(full_df[i].name))

====
